---- MODULE Spec2Model ----
(***************************************************************************)
(* News Agent: the CLI search (app2.py, cmd_search) and the Streamlit      *)
(* search (streamlit_app.py, fetch_entries + the run_search block).        *)
(*                                                                         *)
(* Text is a sequence of one-character strings, an instant is a number of  *)
(* seconds since 1970-01-01T00:00:00Z.  An Optional value is a sequence:   *)
(* None is <<>> and a present value v is <<v>>.                            *)
(***************************************************************************)
EXTENDS Integers, Sequences, FiniteSets, TLC

None == <<>>

Some(v) == <<v>>

(***************************************************************************)
(* Characters and strings (str.strip, str.lower, `in`, re's \s \d \w \b)   *)
(***************************************************************************)
Digits == <<"0", "1", "2", "3", "4", "5", "6", "7", "8", "9">>

IsDigit(c) == \E i \in 1..10 : Digits[i] = c

DigitVal(c) == (CHOOSE i \in 1..10 : Digits[i] = c) - 1

IsSpace(c) == c \in {" ", "\t", "\n"}

UpperLetters ==
    <<"A", "B", "C", "D", "E", "F", "G", "H", "I", "J", "K", "L", "M",
      "N", "O", "P", "Q", "R", "S", "T", "U", "V", "W", "X", "Y", "Z">>

LowerLetters ==
    <<"a", "b", "c", "d", "e", "f", "g", "h", "i", "j", "k", "l", "m",
      "n", "o", "p", "q", "r", "s", "t", "u", "v", "w", "x", "y", "z">>

IsUpper(c) == \E i \in 1..Len(UpperLetters) : UpperLetters[i] = c

IsLower(c) == \E i \in 1..Len(LowerLetters) : LowerLetters[i] = c

\* str.lower / str.casefold on one character
LowerChar(c) ==
    IF IsUpper(c)
    THEN LowerLetters[CHOOSE i \in 1..Len(UpperLetters) : UpperLetters[i] = c]
    ELSE c

Lower(s) == [i \in 1..Len(s) |-> LowerChar(s[i])]

\* re's \w on one character
IsWordChar(c) == IsUpper(c) \/ IsLower(c) \/ IsDigit(c) \/ c = "_"

RECURSIVE LStrip(_)
LStrip(s) == IF s # <<>> /\ IsSpace(s[1]) THEN LStrip(Tail(s)) ELSE s

RECURSIVE RStrip(_)
RStrip(s) ==
    IF s # <<>> /\ IsSpace(s[Len(s)]) THEN RStrip(SubSeq(s, 1, Len(s) - 1)) ELSE s

\* str.strip()
Strip(s) == RStrip(LStrip(s))

\* Python's `needle in haystack` on str: the empty needle is in every string
Contains(haystack, needle) ==
    \E i \in 0..(Len(haystack) - Len(needle)) :
        SubSeq(haystack, i + 1, i + Len(needle)) = needle

\* str.startswith
StartsWith(s, p) == Len(s) >= Len(p) /\ SubSeq(s, 1, Len(p)) = p

(***************************************************************************)
(* Time window parser (app2.py)                                            *)
(***************************************************************************)
RECURSIVE DigitsToInt(_)
DigitsToInt(s) ==
    IF s = <<>> THEN 0
    ELSE 10 * DigitsToInt(SubSeq(s, 1, Len(s) - 1)) + DigitVal(s[Len(s)])

AllDigits(s) == \A i \in 1..Len(s) : IsDigit(s[i])

IsLeap(y) == (y % 4 = 0 /\ y % 100 # 0) \/ y % 400 = 0

DaysInMonth(y, m) ==
    IF m = 2 THEN (IF IsLeap(y) THEN 29 ELSE 28)
    ELSE IF m \in {4, 6, 9, 11} THEN 30 ELSE 31

\* days from 1970-01-01 to the proleptic Gregorian date y-m-d
DaysFromCivil(y, m, d) ==
    LET yy  == IF m <= 2 THEN y - 1 ELSE y
        era == yy \div 400
        yoe == yy - era * 400
        mp  == IF m > 2 THEN m - 3 ELSE m + 9
        doy == (153 * mp + 2) \div 5 + d - 1
        doe == yoe * 365 + yoe \div 4 - yoe \div 100 + doy
    IN  era * 146097 + doe - 719468

SecondsPerDay == 86400

\* datetime.strptime(s, "%Y<sep>%m<sep>%d").replace(tzinfo=utc), None on ValueError
\* %Y is \d\d\d\d, %m is 1[0-2]|0[1-9]|[1-9], %d is 3[01]|[12]\d|0[1-9]|[1-9]| [1-9]
Strptime(s, sep) ==
    LET seps == {i \in 1..Len(s) : s[i] = sep}
    IN  IF Cardinality(seps) # 2 THEN None
        ELSE
          LET i1 == CHOOSE i \in seps : \A j \in seps : i <= j
              i2 == CHOOSE i \in seps : \A j \in seps : j <= i
              ys == SubSeq(s, 1, i1 - 1)
              ms == SubSeq(s, i1 + 1, i2 - 1)
              ds0 == SubSeq(s, i2 + 1, Len(s))
              ds == IF Len(ds0) = 2 /\ ds0[1] = " " THEN Tail(ds0) ELSE ds0
          IN  IF ~(Len(ys) = 4 /\ AllDigits(ys)) THEN None
              ELSE IF ~(Len(ms) \in {1, 2} /\ AllDigits(ms)) THEN None
              ELSE IF ~(Len(ds) \in {1, 2} /\ AllDigits(ds)) THEN None
              ELSE
                LET y == DigitsToInt(ys)
                    m == DigitsToInt(ms)
                    d == DigitsToInt(ds)
                IN  IF y < 1 \/ m < 1 \/ m > 12 \/ d < 1 THEN None
                    ELSE IF d > DaysInMonth(y, m) THEN None
                    ELSE Some(DaysFromCivil(y, m, d) * SecondsPerDay)

parse_datetime_string(s0) ==
    LET s == Strip(s0)
        a == Strptime(s, "-")
    IN  IF a # None THEN a ELSE Strptime(s, "/")

\* timedelta(seconds|minutes|hours|days|weeks = 1) in seconds
UnitSeconds(u) ==
    CASE u = "s" -> 1
      [] u = "m" -> 60
      [] u = "h" -> 3600
      [] u = "d" -> SecondsPerDay
      [] u = "w" -> 7 * SecondsPerDay

RECURSIVE LeadingDigits(_)
LeadingDigits(s) ==
    IF s # <<>> /\ IsDigit(s[1]) THEN <<s[1]>> \o LeadingDigits(Tail(s)) ELSE <<>>

\* _DURATION_RE = ^\s*(\d+)\s*([smhdw])\s*$ with re.IGNORECASE:
\* <<qty, unit>> on a match, None otherwise
DurationMatch(s) ==
    LET t   == Strip(s)
        num == LeadingDigits(t)
        r   == LStrip(SubSeq(t, Len(num) + 1, Len(t)))
    IN  IF num = <<>> \/ Len(r) # 1 THEN None
        ELSE IF LowerChar(r[1]) \notin {"s", "m", "h", "d", "w"} THEN None
        ELSE <<DigitsToInt(num), LowerChar(r[1])>>

parse_since_until(s, now) ==
    IF s = <<>> THEN None
    ELSE
      LET m == DurationMatch(s)
      IN  IF m # None THEN Some(now - m[1] * UnitSeconds(m[2]))
          ELSE parse_datetime_string(s)

(***************************************************************************)
(* Keyword parser and match evaluator of the CLI (app2.py)                 *)
(***************************************************************************)
normalize_text(s) == Strip(s)

\* to_kwd, the inner function of parse_keywords
to_kwd(raw0) ==
    LET raw   == Strip(raw0)
        exact == StartsWith(raw, <<"=">>)
    IN  [text |-> IF exact THEN Strip(Tail(raw)) ELSE raw, exact |-> exact]

\* [to_kwd(k) for k in keywords if k and k.strip()]
RECURSIVE ParsedKwds(_)
ParsedKwds(keywords) ==
    IF keywords = <<>> THEN <<>>
    ELSE (IF Strip(Head(keywords)) # <<>> THEN <<to_kwd(Head(keywords))>> ELSE <<>>)
         \o ParsedKwds(Tail(keywords))

MaxChildrenCli == 5

\* parse_keywords: [parent |-> Optional kwd, children |-> parsed[1:6]]
parse_keywords(keywords) ==
    LET parsed == ParsedKwds(keywords)
    IN  [parent   |-> IF parsed # <<>> THEN Some(parsed[1]) ELSE None,
         children |-> SubSeq(parsed, 2, IF Len(parsed) < MaxChildrenCli + 1
                                        THEN Len(parsed) ELSE MaxChildrenCli + 1)]

text_matches_keyword(text, kwd) ==
    kwd.text # <<>> /\ Contains(Lower(text), Lower(kwd.text))

matches_parent_children(title, summary, parent, children) ==
    LET blob == Strip(title \o <<" ">> \o summary)
    IN  IF parent = None THEN TRUE
        ELSE IF ~text_matches_keyword(blob, parent[1]) THEN FALSE
        ELSE IF children = <<>> THEN TRUE
        ELSE \E i \in 1..Len(children) : text_matches_keyword(blob, children[i])

(***************************************************************************)
(* Text matching of the Streamlit app (streamlit_app.py)                   *)
(***************************************************************************)
normalize(s) == Strip(s)

Quote == "\""

is_quoted(term) ==
    LET t == Strip(term)
    IN  Len(t) >= 2 /\ t[1] = Quote /\ t[Len(t)] = Quote

strip_quotes(term) ==
    IF is_quoted(term) THEN SubSeq(Strip(term), 2, Len(Strip(term)) - 1)
    ELSE Strip(term)

loose_match(haystack, needle) == Contains(Lower(haystack), Lower(needle))

\* re's \b between haystack[k] and haystack[k+1] (k = 0 is the start, k = Len the end)
WordBoundaryAt(haystack, k) ==
    LET before == k >= 1 /\ IsWordChar(haystack[k])
        after  == k < Len(haystack) /\ IsWordChar(haystack[k + 1])
    IN  before # after

\* re.search(r"\b" + re.escape(phrase) + r"\b", haystack, re.IGNORECASE) is not None
exact_word_match(haystack, phrase) ==
    \E i \in 0..(Len(haystack) - Len(phrase)) :
        /\ WordBoundaryAt(haystack, i)
        /\ Lower(SubSeq(haystack, i + 1, i + Len(phrase))) = Lower(phrase)
        /\ WordBoundaryAt(haystack, i + Len(phrase))

match_term(text, term) ==
    IF term = <<>> THEN FALSE
    ELSE IF is_quoted(term) THEN exact_word_match(text, strip_quotes(term))
    ELSE loose_match(text, term)

\* [x for x in xs if keep(x)] for the two comprehensions of children_match
RECURSIVE NonBlank(_)
NonBlank(children) ==
    IF children = <<>> THEN <<>>
    ELSE (IF Strip(Head(children)) # <<>> THEN <<Head(children)>> ELSE <<>>)
         \o NonBlank(Tail(children))

RECURSIVE Hits(_, _)
Hits(text, kids) ==
    IF kids = <<>> THEN <<>>
    ELSE (IF match_term(text, Head(kids)) THEN <<Head(kids)>> ELSE <<>>)
         \o Hits(text, Tail(kids))

\* children_match with mode ALL satisfied by a single hit
children_matchAnyForAll(text, children, mode) ==
    LET kids == NonBlank(children)
        hits == Hits(text, kids)
    IN  IF kids = <<>> THEN [ok |-> TRUE, reason |-> <<"no child terms provided">>]
        ELSE [ok |-> Len(hits) > 0,
              reason |-> IF Len(hits) > 0 THEN <<"child matched", hits[1]>>
                         ELSE <<"no child matched">>]

\* children_match: (ok, reason); the reason is kept as its kind and the terms it names
children_match(text, children, mode) ==
    LET kids == NonBlank(children)
        hits == Hits(text, kids)
    IN  IF kids = <<>> THEN [ok |-> TRUE, reason |-> <<"no child terms provided">>]
        ELSE IF mode = "ALL"
        THEN [ok |-> Len(hits) = Len(kids),
              reason |-> <<"children", kids,
                           IF Len(hits) = Len(kids) THEN "all matched"
                           ELSE "not all matched">>]
        ELSE [ok |-> Len(hits) > 0,
              reason |-> IF Len(hits) > 0 THEN <<"child matched", hits[1]>>
                         ELSE <<"no child matched">>]

(***************************************************************************)
(* Feed documents, as feedparser.parse returns them.  A document is        *)
(*   [title   : Optional text   (parsed.feed's title),                     *)
(*    bozo    : BOOLEAN         (bozo set, with a bozo_exception),         *)
(*    raises  : BOOLEAN         (feedparser.parse itself raises),          *)
(*    entries : sequence of raw entries]                                   *)
(* and a raw entry is                                                      *)
(*   [title, summary, link : text,                                         *)
(*    published_parsed, updated_parsed, created_parsed : Optional instant  *)
(*       (a struct_time),                                                  *)
(*    published, updated, created : Optional [kind, t], the free-text date *)
(*       as dateutil reads it: kind "bad" (parse raises), "naive" or       *)
(*       "aware" (a datetime without or with tzinfo, at instant t),        *)
(*    bad : BOOLEAN (the title attribute is no str: .strip() raises)]      *)
(***************************************************************************)

\* safe_get_published; tz is the local UTC offset time.mktime reads the struct_time in
safe_get_published(entry, tz) ==
    LET st == IF entry.published_parsed # None THEN entry.published_parsed
              ELSE entry.updated_parsed
    IN  IF st = None THEN None ELSE Some(st[1] - tz)

\* safe_parse_date: Optional [kind |-> "naive" | "aware", t |-> instant]
safe_parse_date(entry) ==
    LET parses(val) == val # None /\ val[1].kind # "bad"
    IN  IF parses(entry.published) THEN entry.published
        ELSE IF parses(entry.updated) THEN entry.updated
        ELSE IF parses(entry.created) THEN entry.created
        ELSE IF entry.published_parsed # None
             THEN Some([kind |-> "naive", t |-> entry.published_parsed[1]])
        ELSE IF entry.updated_parsed # None
             THEN Some([kind |-> "naive", t |-> entry.updated_parsed[1]])
        ELSE None

NoTitle == <<"(", "n", "o", " ", "t", "i", "t", "l", "e", ")">>

\* the time tests with the lower bound's test left out
CliInWindowNoSince(published, dt_since, dt_until) ==
    ~(dt_until # None /\ published # None /\ published[1] > dt_until[1])

\* the two time tests of cmd_search's entry loop: TRUE when the entry is kept
CliInWindow(published, dt_since, dt_until) ==
    /\ ~(dt_since # None /\ published # None /\ published[1] < dt_since[1])
    /\ ~(dt_until # None /\ published # None /\ published[1] > dt_until[1])

\* the keyword test of cmd_search's entry loop: TRUE when the entry is kept
CliKeywordKeep(title, summary, parent_kwd, child_kwds) ==
    IF parent_kwd # None \/ child_kwds # <<>>
    THEN matches_parent_children(title, summary, parent_kwd, child_kwds)
    ELSE TRUE

\* the body of `for entry in parsed.entries`, over the entries left to read:
\* the items appended, and whether an exception ended the loop
RECURSIVE CliReadEntries(_, _, _)
CliReadEntries(entries, feed_title, c) ==
    IF entries = <<>> THEN [items |-> <<>>, raised |-> FALSE]
    ELSE
      LET entry == Head(entries)
      IN  IF entry.bad THEN [items |-> <<>>, raised |-> TRUE]
          ELSE
            LET title     == normalize_text(entry.title)
                link      == normalize_text(entry.link)
                summary   == normalize_text(entry.summary)
                published == safe_get_published(entry, c.tz)
                keep      == /\ CliInWindow(published, c.dt_since, c.dt_until)
                             /\ CliKeywordKeep(title, summary, c.parent_kwd, c.child_kwds)
                rest      == CliReadEntries(Tail(entries), feed_title, c)
                item      == [title     |-> IF title # <<>> THEN title ELSE NoTitle,
                              link      |-> link,
                              summary   |-> summary,
                              published |-> published,
                              source    |-> feed_title]
            IN  [items  |-> (IF keep THEN <<item>> ELSE <<>>) \o rest.items,
                 raised |-> rest.raised]

\* one turn of `for url in feed_urls` on the document feedparser returned
CliFetchOne(url, doc, c) ==
    IF doc.raises
    THEN [items |-> <<>>, failures |-> << <<url, "exception">> >>]
    ELSE
      LET feed_title == IF doc.title # None /\ doc.title[1] # <<>>
                        THEN doc.title[1] ELSE url
          r == CliReadEntries(doc.entries, feed_title, c)
      IN  [items    |-> r.items,
           failures |-> (IF doc.bozo THEN << <<url, "Parse issue">> >> ELSE <<>>)
                        \o (IF r.raised THEN << <<url, "exception">> >> ELSE <<>>)]

RECURSIVE DedupeFrom(_, _)
DedupeFrom(entries, seen) ==
    IF entries = <<>> THEN <<>>
    ELSE
      LET e   == Head(entries)
          key == <<Strip(e.title), Strip(e.link)>>
      IN  IF key \in seen THEN DedupeFrom(Tail(entries), seen)
          ELSE <<e>> \o DedupeFrom(Tail(entries), seen \cup {key})

dedupe_entries(entries) == DedupeFrom(entries, {})

\* sort_key without the negation: oldest first
sort_keyAscending(e) == IF e.published # None THEN <<0, e.published[1]>> ELSE <<1, 0>>

\* sort_key of cmd_search
sort_key(e) == IF e.published # None THEN <<0, 0 - e.published[1]>> ELSE <<1, 0>>

\* tuple order of two sort keys
SortKeyLess(a, b) == a[1] < b[1] \/ (a[1] = b[1] /\ a[2] < b[2])

\* list.sort: the stable order of seq, where before[i][j] says that the key of
\* seq[i] is less than the key of seq[j] (the i-th element goes after every element
\* that is before it and after every earlier element that it is not before)
StableSort(seq, before) ==
    LET n == Len(seq)
        pos(i) == Cardinality({j \in 1..n :
                      \/ before[j][i]
                      \/ (~before[i][j] /\ j < i)}) + 1
    IN  [p \in 1..n |-> seq[CHOOSE i \in 1..n : pos(i) = p]]

\* all_entries.sort(key=sort_key)
CliSort(entries) ==
    StableSort(entries,
               [i \in 1..Len(entries) |-> [j \in 1..Len(entries) |->
                   SortKeyLess(sort_key(entries[i]), sort_key(entries[j]))]])

\* the slice taken one too long
TakeOneMore(seq, limit) == SubSeq(seq, 1, IF Len(seq) < limit + 1 THEN Len(seq) ELSE limit + 1)

\* seq[:limit] for limit >= 0
Take(seq, limit) == SubSeq(seq, 1, IF Len(seq) < limit THEN Len(seq) ELSE limit)

\* validate_limit with range(5, 50, 5): 50 is refused
validate_limitShortRange(value) == value = 1 \/ (value >= 5 /\ value < 50 /\ value % 5 = 0)

\* validate_limit: TRUE when the value is accepted
validate_limit(value) == value = 1 \/ (value >= 5 /\ value <= 50 /\ value % 5 = 0)

(***************************************************************************)
(* fetch_entries and the run_search block (streamlit_app.py)               *)
(***************************************************************************)
\* datetime.min, below every instant of the model (all are after 1970)
DatetimeMin == -1

\* the body of `for e in rss.entries`: the items appended, and whether an
\* exception (aware dt against the naive cutoff, or a title that is no str) ended it
RECURSIVE StReadEntries(_, _, _, _)
StReadEntries(entries, source_name, url, cutoff) ==
    IF entries = <<>> THEN [items |-> <<>>, raised |-> FALSE]
    ELSE
      LET e  == Head(entries)
          dt == safe_parse_date(e)
      IN  IF dt # None /\ dt[1].kind = "aware" THEN [items |-> <<>>, raised |-> TRUE]
          ELSE IF dt # None /\ dt[1].t < cutoff
               THEN StReadEntries(Tail(entries), source_name, url, cutoff)
          ELSE IF e.bad THEN [items |-> <<>>, raised |-> TRUE]
          ELSE
            LET rest == StReadEntries(Tail(entries), source_name, url, cutoff)
                item == [title     |-> normalize(e.title),
                         summary   |-> normalize(e.summary),
                         link      |-> normalize(e.link),
                         published |-> IF dt = None THEN None ELSE Some(dt[1].t),
                         source    |-> source_name,
                         feed_url  |-> url]
            IN  [items |-> <<item>> \o rest.items, raised |-> rest.raised]

\* one turn of `for url in feeds` of fetch_entries
StFetchOne(url, doc, cutoff) ==
    IF doc.raises THEN [items |-> <<>>, raised |-> FALSE]
    ELSE StReadEntries(doc.entries,
                       normalize(IF doc.title # None THEN doc.title[1] ELSE url),
                       url, cutoff)

\* results.sort(key=lambda x: x["published"] or datetime.min, reverse=True)
StSortKey(x) == IF x.published # None THEN x.published[1] ELSE DatetimeMin

StSort(results) ==
    StableSort(results,
               [i \in 1..Len(results) |-> [j \in 1..Len(results) |->
                   StSortKey(results[i]) > StSortKey(results[j])]])

\* " ".join([title, summary, source])
Haystack(item) == item.title \o <<" ">> \o item.summary \o <<" ">> \o item.source

\* one item of the `for item in entries` loop: TRUE when it is appended to matched
StItemMatches(item, parent, children, mode) ==
    /\ match_term(Haystack(item), parent)
    /\ children_match(Haystack(item), children, mode).ok

\* the `for item in entries` loop with its break at len(matched) >= limit
RECURSIVE StMatchLoop(_, _, _, _, _, _)
StMatchLoop(entries, matched, parent, children, mode, limit) ==
    IF entries = <<>> THEN matched
    ELSE
      LET item == Head(entries)
      IN  IF ~StItemMatches(item, parent, children, mode)
          THEN StMatchLoop(Tail(entries), matched, parent, children, mode, limit)
          ELSE
            LET row == [title     |-> item.title,
                        summary   |-> item.summary,
                        link      |-> item.link,
                        published |-> item.published,
                        source    |-> item.source,
                        feed_url  |-> item.feed_url,
                        reason    |-> <<"parent matched", parent,
                                        children_match(Haystack(item), children, mode).reason>>]
                m2  == Append(matched, row)
            IN  IF Len(m2) >= limit THEN m2
                ELSE StMatchLoop(Tail(entries), m2, parent, children, mode, limit)

(***************************************************************************)
(* Inputs of the model: the command lines, the form values, and the        *)
(* documents the feeds return                                              *)
(***************************************************************************)
MaxFeeds == 2

MaxLimitIn == 5

\* the largest --limit validate_limit accepts
MaxLimit == 50

\* the --limit values of the model: the small ones, the largest accepted one and
\* the one above it
CliLimits == (0..MaxLimitIn) \cup {MaxLimit, MaxLimit + 1}

\* datetime.now(timezone.utc) / datetime.utcnow(): 2025-10-15T00:00:00Z
Now == DaysFromCivil(2025, 10, 15) * SecondsPerDay

SecondsPerHour == 3600

\* local UTC offsets of the machine the CLI runs on
TzOffsets == {0, SecondsPerHour}

Urls == << <<"u", "1">>, <<"u", "2">>, <<"u", "3">> >>

Empty == <<>>

T_AI == <<"A", "I">>

SincePool ==
    { Empty,
      <<"7", "d">>,
      <<"2", "0", "2", "5", "-", "1", "0", "-", "0", "1">>,
      <<"7", "x">> }

UntilPool ==
    { Empty,
      <<"1", "D">>,
      <<"2", "0", "2", "5", "/", "0", "9", "/", "0", "1">> }

KeywordPool ==
    { <<>>,
      << <<"=", "A", "I">> >>,
      << T_AI, <<"=", "c", "h", "i", "p">>, <<"d", "e", "a", "l">> >>,
      << <<"=">> >>,
      << <<" ">>, <<"e", "v">>, <<"=", " ">> >> }

ParentPool ==
    { T_AI,
      <<Quote, "A", "I", Quote>>,
      <<" ">>,
      <<Quote, Quote>> }

ChildrenPool ==
    { <<Empty, Empty, Empty, Empty, Empty>>,
      << <<"c", "h", "i", "p">>, Empty, <<"d", "e", "a", "l">>, <<" ">>, Empty >>,
      << T_AI, <<"c">>, Empty, Empty, <<Quote, Quote>> >> }

SinceDaysPool == {1, 30}

RawEntry(title, link, summary, pp, up, ptext, utext) ==
    [title |-> title, link |-> link, summary |-> summary,
     published_parsed |-> pp, updated_parsed |-> up,
     created_parsed |-> None,
     published |-> ptext, updated |-> utext, created |-> None, bad |-> FALSE]

Naive(t) == Some([kind |-> "naive", t |-> t])

Aware(t) == Some([kind |-> "aware", t |-> t])

Unparsable == Some([kind |-> "bad", t |-> 0])

Ago(days) == Now - days * SecondsPerDay

eChip ==
    RawEntry(<<"A", "I", " ", "c", "h", "i", "p">>, <<"a">>, Empty,
             Some(Ago(2)), None, Naive(Ago(2)), None)

eChipDup ==
    RawEntry(<<"A", "I", " ", "c", "h", "i", "p">>, <<"a">>, <<"x">>,
             Some(Ago(10)), None, None, None)

eSaid ==
    RawEntry(<<"S", "A", "I", "d">>, <<"b">>, Empty,
             Some(Now - 12 * SecondsPerHour), Some(Ago(2)), Unparsable, None)

eUnk ==
    RawEntry(<<"e", "v", " ", "A", "I">>, <<"c">>, Empty, None, None, None, None)

eDeal ==
    RawEntry(<<" ", "A", "I", "-", "d", "e", "a", "l", " ">>, <<"d">>, Empty,
             None, Some(Ago(2)), None, Naive(Ago(2)))

eOld ==
    RawEntry(T_AI, <<"e">>, Empty, Some(Ago(40)), None, None, None)

eNoTitle ==
    RawEntry(Empty, <<"g">>, T_AI, None, Some(Ago(1)), None, None)

eAware ==
    RawEntry(T_AI, <<"f">>, Empty, Some(Ago(2)), None, Aware(Ago(2)), None)

eBad == [eChip EXCEPT !.bad = TRUE]

\* an entry whose only date is created_parsed
eCreated ==
    [RawEntry(<<"e", "v">>, <<"h">>, Empty, None, None, None, None)
        EXCEPT !.created_parsed = Some(Ago(3))]

Doc(title, bozo, raises, entries) ==
    [title |-> title, bozo |-> bozo, raises |-> raises, entries |-> entries]

FeedPool ==
    { Doc(Some(<<"T">>), FALSE, FALSE, <<eChip, eSaid, eOld>>),
      Doc(None, FALSE, FALSE, <<eUnk, eDeal, eChipDup>>),
      Doc(Some(Empty), TRUE, FALSE, <<eChipDup, eNoTitle, eCreated>>),
      Doc(None, FALSE, TRUE, <<>>),
      Doc(None, FALSE, FALSE, <<eUnk, eBad, eChip>>),
      Doc(None, FALSE, FALSE, <<eAware>>) }

(***************************************************************************)
(* The two searches as state machines                                      *)
(***************************************************************************)
VARIABLES
    app,          \* "cli" (app2.py) or "st" (streamlit_app.py)
    pc,           \* where the run is
    args,         \* the options / form values of the run
    env,          \* [now, tz]
    dt_since,     \* cmd_search: Optional instant
    dt_until,     \* cmd_search: Optional instant
    parent_kwd,   \* cmd_search: Optional keyword
    child_kwds,   \* cmd_search: keywords
    idx,          \* position in feed_urls of the next feed to fetch
    all_entries,  \* cmd_search's all_entries / fetch_entries' results
    failures,     \* cmd_search's failures
    fetched,      \* the urls feedparser.parse was called with, in order
    docs,         \* the documents returned, in order (history)
    collected,    \* all_entries as it was before dedupe and sort (history)
    result,       \* display_entries / matched
    opening       \* cmd_search's --open step: [selection, idxs, opened]

vars == <<app, pc, args, env, dt_since, dt_until, parent_kwd, child_kwds, idx,
          all_entries, failures, fetched, docs, collected, result, opening>>

\* the --open step before anything was typed
NoOpening == [selection |-> <<>>, idxs |-> <<>>, opened |-> <<>>]

FeedLists == {SubSeq(Urls, 1, n) : n \in 1..MaxFeeds}

CliArgs ==
    [since : SincePool, until : UntilPool, limit : CliLimits,
     keywords : KeywordPool, parent : {Empty}, children : {<<>>}, mode : {"ANY"},
     since_days : {0}, feed_urls : FeedLists]

StArgs ==
    [since : {Empty}, until : {Empty}, limit : 1..MaxLimitIn,
     keywords : {<<>>}, parent : ParentPool, children : ChildrenPool,
     mode : {"ANY", "ALL"}, since_days : SinceDaysPool, feed_urls : FeedLists]

Init ==
    /\ \/ app = "cli" /\ pc = "cli_args" /\ args \in CliArgs
          /\ env \in [now : {Now}, tz : TzOffsets]
       \/ app = "st" /\ pc = "st_begin" /\ args \in StArgs
          /\ env \in [now : {Now}, tz : {0}]
    /\ dt_since = None
    /\ dt_until = None
    /\ parent_kwd = None
    /\ child_kwds = <<>>
    /\ idx = 1
    /\ all_entries = <<>>
    /\ failures = <<>>
    /\ fetched = <<>>
    /\ docs = <<>>
    /\ collected = <<>>
    /\ result = <<>>
    /\ opening = NoOpening

\* click runs the --limit callback before cmd_search: BadParameter ends the run
CliParseArgs ==
    /\ pc = "cli_args"
    /\ pc' = IF validate_limit(args.limit) THEN "cli_begin" ELSE "usage_error"
    /\ UNCHANGED <<app, args, env, dt_since, dt_until, parent_kwd, child_kwds, idx,
                   all_entries, failures, fetched, docs, collected, result>>
    /\ UNCHANGED opening

\* the range test with the comparison turned around
RangeErrorReversed(since, until) == since # None /\ until # None /\ since[1] < until[1]

\* `if dt_since and dt_until and dt_since > dt_until`
RangeError(since, until) == since # None /\ until # None /\ since[1] > until[1]

\* cmd_search up to its feed loop: the bounds, the range test, the keywords
CliBegin ==
    /\ pc = "cli_begin"
    /\ LET s == IF args.since # Empty THEN parse_since_until(args.since, env.now) ELSE None
           u == IF args.until # Empty THEN parse_since_until(args.until, env.now) ELSE None
           k == parse_keywords(args.keywords)
       IN  /\ dt_since' = s
           /\ dt_until' = u
           /\ IF RangeError(s, u)
              THEN /\ pc' = "exit2"
                   /\ UNCHANGED <<parent_kwd, child_kwds>>
              ELSE /\ pc' = "cli_fetch"
                   /\ parent_kwd' = k.parent
                   /\ child_kwds' = k.children
    /\ UNCHANGED <<app, args, env, idx, all_entries, failures, fetched, docs,
                   collected, result>>
    /\ UNCHANGED opening

\* one turn of `for url in feed_urls`, on whatever the feed returns
CliFetch ==
    /\ pc = "cli_fetch"
    /\ idx <= Len(args.feed_urls)
    /\ \E doc \in FeedPool :
         LET url == args.feed_urls[idx]
             r   == CliFetchOne(url, doc,
                                [tz |-> env.tz, dt_since |-> dt_since,
                                 dt_until |-> dt_until, parent_kwd |-> parent_kwd,
                                 child_kwds |-> child_kwds])
         IN  /\ all_entries' = all_entries \o r.items
             /\ failures' = failures \o r.failures
             /\ fetched' = Append(fetched, url)
             /\ docs' = Append(docs, doc)
    /\ idx' = idx + 1
    /\ UNCHANGED <<app, pc, args, env, dt_since, dt_until, parent_kwd, child_kwds,
                   collected, result>>
    /\ UNCHANGED opening

\* after the loop: dedupe, sort, truncate, print the warnings and the table
CliFinish ==
    /\ pc = "cli_fetch"
    /\ idx > Len(args.feed_urls)
    /\ collected' = all_entries
    /\ all_entries' = CliSort(dedupe_entries(all_entries))
    /\ result' = Take(CliSort(dedupe_entries(all_entries)), args.limit)
    /\ pc' = "cli_done"
    /\ UNCHANGED <<app, args, env, dt_since, dt_until, parent_kwd, child_kwds, idx,
                   failures, fetched, docs>>
    /\ UNCHANGED opening

\* `if run_search:` and the parent test
StBegin ==
    /\ pc = "st_begin"
    /\ pc' = IF Strip(args.parent) = <<>> THEN "st_stopped" ELSE "st_fetch"
    /\ UNCHANGED <<app, args, env, dt_since, dt_until, parent_kwd, child_kwds, idx,
                   all_entries, failures, fetched, docs, collected, result>>
    /\ UNCHANGED opening

\* datetime.utcnow() - timedelta(days=since_days)
Cutoff == env.now - args.since_days * SecondsPerDay

\* one turn of `for url in feeds` of fetch_entries; an exception ends the run
StFetch ==
    /\ pc = "st_fetch"
    /\ idx <= Len(args.feed_urls)
    /\ \E doc \in FeedPool :
         LET url == args.feed_urls[idx]
             r   == StFetchOne(url, doc, Cutoff)
         IN  /\ all_entries' = all_entries \o r.items
             /\ pc' = IF r.raised THEN "st_error" ELSE "st_fetch"
             /\ fetched' = Append(fetched, url)
             /\ docs' = Append(docs, doc)
    /\ idx' = idx + 1
    /\ UNCHANGED <<app, args, env, dt_since, dt_until, parent_kwd, child_kwds,
                   failures, collected, result>>
    /\ UNCHANGED opening

\* the sort that ends fetch_entries, then the match loop and the results
StFinish ==
    /\ pc = "st_fetch"
    /\ idx > Len(args.feed_urls)
    /\ collected' = all_entries
    /\ all_entries' = StSort(all_entries)
    /\ result' = StMatchLoop(StSort(all_entries), <<>>, args.parent, args.children,
                             args.mode, args.limit)
    /\ pc' = "st_done"
    /\ UNCHANGED <<app, args, env, dt_since, dt_until, parent_kwd, child_kwds, idx,
                   failures, fetched, docs>>
    /\ UNCHANGED opening

Next ==
    \/ CliParseArgs
    \/ CliBegin
    \/ CliFetch
    \/ CliFinish
    \/ StBegin
    \/ StFetch
    \/ StFinish

Spec == Init /\ [][Next]_vars

(***************************************************************************)
(* The --open step of cmd_search                                           *)
(***************************************************************************)
\* str.split(sep) for a one-character separator
RECURSIVE Split(_, _)
Split(s, sep) ==
    IF \A i \in 1..Len(s) : s[i] # sep THEN <<s>>
    ELSE LET k == CHOOSE i \in 1..Len(s) : s[i] = sep /\ \A j \in 1..(i - 1) : s[j] # sep
         IN  <<SubSeq(s, 1, k - 1)>> \o Split(SubSeq(s, k + 1, Len(s)), sep)

\* int(text): Some(value), or None where Python raises ValueError. Blanks around
\* the number, one sign and single underscores between digits are accepted.
int(text) ==
    LET t      == Strip(text)
        signed == t # <<>> /\ t[1] \in {"+", "-"}
        body   == IF signed THEN Tail(t) ELSE t
        ok     == /\ body # <<>>
                  /\ IsDigit(body[1])
                  /\ IsDigit(body[Len(body)])
                  /\ \A i \in 1..Len(body) :
                        \/ IsDigit(body[i])
                        \/ body[i] = "_" /\ i > 1 /\ IsDigit(body[i - 1])
        value  == DigitsToInt(SelectSeq(body, IsDigit))
    IN  IF ~ok THEN None
        ELSE Some(IF signed /\ t[1] = "-" THEN 0 - value ELSE value)

\* sorted(out) of a set of integers
RECURSIVE sorted(_)
sorted(out) ==
    IF out = {} THEN <<>>
    ELSE LET m == CHOOSE x \in out : \A y \in out : x <= y
         IN  <<m>> \o sorted(out \ {m})

\* the range with the upper end left unclamped: range(max(1, start), end + 1)
SelectionRangeUnclamped(start, end, max_index) ==
    (IF start < 1 THEN 1 ELSE start)..end

\* range(max(1, start), min(max_index, end) + 1), as a set
SelectionRange(start, end, max_index) ==
    (IF start < 1 THEN 1 ELSE start)..(IF max_index < end THEN max_index ELSE end)

\* one turn of `for token in selection.split(",")`: the indices added to out
SelectionToken(token0, max_index) ==
    LET token == Strip(token0)
    IN  IF token = <<>> THEN {}
        ELSE IF Contains(token, <<"-">>)
        THEN LET parts == Split(token, "-")
                 a     == int(parts[1])
                 b     == int(SubSeq(token, Len(parts[1]) + 2, Len(token)))
             IN  IF a = None \/ b = None THEN {}
                 ELSE IF a[1] > b[1] THEN SelectionRange(b[1], a[1], max_index)
                 ELSE SelectionRange(a[1], b[1], max_index)
        ELSE LET n == int(token)
             IN  IF n = None THEN {}
                 ELSE IF 1 <= n[1] /\ n[1] <= max_index THEN {n[1]} ELSE {}

parse_selection(selection, max_index) ==
    LET tokens == Split(selection, ",")
    IN  sorted(UNION {SelectionToken(tokens[i], max_index) : i \in 1..Len(tokens)})

\* `for i in idxs`: the links handed to webbrowser.open, and whether
\* display_entries[i - 1] raised IndexError (i - 1 < 0 counts from the end)
RECURSIVE OpenSelected(_, _)
OpenSelected(idxs, display_entries) ==
    IF idxs = <<>> THEN [opened |-> <<>>, raised |-> FALSE]
    ELSE
      LET j == Head(idxs) - 1
          n == Len(display_entries)
      IN  IF j >= n \/ j < 0 - n THEN [opened |-> <<>>, raised |-> TRUE]
          ELSE
            LET link == display_entries[IF j >= 0 THEN j + 1 ELSE n + j + 1].link
                rest == OpenSelected(Tail(idxs), display_entries)
            IN  [opened |-> (IF link # <<>> THEN <<link>> ELSE <<>>) \o rest.opened,
                 raised |-> rest.raised]

\* the longest results table and the most tokens typed at the prompt
MaxShown == 3

MaxTokens == 2

\* tokens typed at the prompt: indices, ranges, and malformed ones
TokenPool ==
    { <<"1">>, <<" ", "3", " ">>, <<"0">>, <<"9">>, <<"+", "2">>, <<"1", "_", "0">>,
      <<"3", "-", "1">>, <<"2", "-", "9">>, <<"0", "-", "1">>, <<"1", "-", "-", "3">>,
      <<"-", "2">>, <<"2", "-">>, <<"1", "-", "a">>, <<"a">>, <<>> }

\* the lines of k tokens joined with commas
RECURSIVE SelectionLines(_)
SelectionLines(k) ==
    IF k = 1 THEN TokenPool
    ELSE {line \o <<",">> \o token : line \in SelectionLines(k - 1), token \in TokenPool}

SelectionPool == UNION {SelectionLines(k) : k \in 1..MaxTokens}

\* an entry without a link
eNoLink ==
    RawEntry(<<"n">>, Empty, Empty, Some(Ago(1)), None, None, None)

SelEntries == <<eChip, eNoLink, eSaid, eDeal, eOld, eUnk>>

\* feeds of 1..MaxShown entries
SelDocs == {Doc(Some(<<"T">>), FALSE, FALSE, SubSeq(SelEntries, 1, n)) : n \in 1..MaxShown}

\* `search --feeds u1 --limit 5 --open`
SelArgs ==
    [since |-> Empty, until |-> Empty, limit |-> 5, keywords |-> <<>>, parent |-> Empty,
     children |-> <<>>, mode |-> "ANY", since_days |-> 0, feed_urls |-> <<Urls[1]>>]

\* cmd_search with --open, after the results table of a one-feed search was shown
InitSel ==
    /\ app = "cli"
    /\ pc = "cli_done"
    /\ args = SelArgs
    /\ env = [now |-> Now, tz |-> 0]
    /\ dt_since = None
    /\ dt_until = None
    /\ parent_kwd = None
    /\ child_kwds = <<>>
    /\ idx = 2
    /\ failures = <<>>
    /\ fetched = <<Urls[1]>>
    /\ \E doc \in SelDocs :
         LET r == CliFetchOne(Urls[1], doc,
                              [tz |-> 0, dt_since |-> None, dt_until |-> None,
                               parent_kwd |-> None, child_kwds |-> <<>>])
         IN  /\ docs = <<doc>>
             /\ collected = r.items
             /\ all_entries = CliSort(dedupe_entries(r.items))
             /\ result = Take(CliSort(dedupe_entries(r.items)), SelArgs.limit)
    /\ opening = NoOpening

\* `selection = input("> ").strip()`: a line, Ctrl-C (caught: "Cancelled."), or
\* the end of the input (EOFError, which nothing catches)
CliPrompt ==
    /\ pc = "cli_done"
    /\ app = "cli"
    /\ result # <<>>
    /\ \/ \E line \in SelectionPool :
            /\ opening' = [opening EXCEPT !.selection = Strip(line)]
            /\ pc' = "cli_selected"
       \/ /\ pc' \in {"cli_cancelled", "cli_eof"}
          /\ UNCHANGED opening
    /\ UNCHANGED <<app, args, env, dt_since, dt_until, parent_kwd, child_kwds, idx,
                   all_entries, failures, fetched, docs, collected, result>>

\* `if selection:` ... parse_selection, then the loop that opens the links
CliOpenLinks ==
    /\ pc = "cli_selected"
    /\ IF opening.selection = <<>>
       THEN /\ pc' = "cli_skipped"
            /\ UNCHANGED opening
       ELSE LET idxs == parse_selection(opening.selection, Len(result))
                o    == OpenSelected(idxs, result)
            IN  /\ opening' = [opening EXCEPT !.idxs = idxs, !.opened = o.opened]
                /\ pc' = IF idxs = <<>> THEN "cli_no_valid"
                         ELSE IF o.raised THEN "cli_index_error"
                         ELSE "cli_opened"
    /\ UNCHANGED <<app, args, env, dt_since, dt_until, parent_kwd, child_kwds, idx,
                   all_entries, failures, fetched, docs, collected, result>>

NextSel ==
    \/ CliPrompt
    \/ CliOpenLinks

SpecSel == InitSel /\ [][NextSel]_vars

(***************************************************************************)
(* Properties                                                              *)
(***************************************************************************)
Done == pc \in {"cli_done", "st_done"}

\* the lower and upper bounds of the run's time window, as Optional instants
LowerBound == IF app = "cli" THEN dt_since ELSE Some(Cutoff)

UpperBound == IF app = "cli" THEN dt_until ELSE None

\* C1: in the CLI search, when --since and --until both resolve and since > until,
\* no feed is ever contacted (feedparser.parse is never called) in the run, which
\* never enters its feed loop.
C1_NoFetchOnReversedRange ==
    LET s == parse_since_until(args.since, env.now)
        u == parse_since_until(args.until, env.now)
    IN  (app = "cli" /\ s # None /\ u # None /\ s[1] > u[1])
            => (fetched = <<>> /\ pc \notin {"cli_fetch", "cli_done"})

\* the range error was reported (exit status 2) and nothing was fetched
C1_Witness == pc = "exit2" /\ fetched = <<>> /\ dt_since # None /\ dt_until # None

\* a non-empty time-window string that matches neither grammar
Malformed(s) ==
    s # Empty /\ DurationMatch(s) = None /\ parse_datetime_string(s) = None

\* C2: a non-empty --since or --until that matches neither the relative nor the
\* absolute grammar aborts the search before any source is fetched; the search
\* never runs with that bound absent.
C2_MalformedBoundAborts ==
    (app = "cli" /\ (Malformed(args.since) \/ Malformed(args.until)))
        => (fetched = <<>> /\ pc # "cli_done")

\* a document of a source that failed: the fetch raised, the parse is flagged as
\* failed, or reading one of its entries raised
SourceFailed(doc) ==
    doc.raises \/ doc.bozo \/ \E i \in 1..Len(doc.entries) : doc.entries[i].bad

\* the source name the items of the i-th feed carry in the CLI
CliSourceOf(i) ==
    IF docs[i].title # None /\ docs[i].title[1] # <<>> THEN docs[i].title[1]
    ELSE fetched[i]

\* C3: in a finished CLI search every source that failed is recorded as a warning
\* and contributes no item at all to the result.
C3_FailedSourceContributesNothing ==
    pc = "cli_done" =>
        \A i \in 1..Len(docs) :
            SourceFailed(docs[i]) =>
                /\ \E k \in 1..Len(failures) : failures[k][1] = fetched[i]
                /\ \A r \in 1..Len(result) : result[r].source # CliSourceOf(i)

\* C4 as claimed: with a lower time bound active, every item of the result has a
\* known published instant p with since <= p (and p <= until when that is set).
C4_ResultAllKnownAndInWindow ==
    (Done /\ LowerBound # None) =>
        \A r \in 1..Len(result) :
            /\ result[r].published # None
            /\ LowerBound[1] <= result[r].published[1]
            /\ UpperBound # None => result[r].published[1] <= UpperBound[1]

\* C4, amended: every item of the result whose published instant is known has
\* since <= p when a lower bound is set and p <= until when an upper bound is set
\* (items with an unknown published instant are not tested against the bounds).
C4_KnownPublishedInWindow ==
    Done =>
        \A r \in 1..Len(result) :
            result[r].published # None =>
                /\ LowerBound # None => LowerBound[1] <= result[r].published[1]
                /\ UpperBound # None => result[r].published[1] <= UpperBound[1]

\* a CLI search with both bounds set that dropped an entry for its date and whose
\* result holds a dated item and an undated one
C4_Witness ==
    /\ pc = "cli_done"
    /\ dt_since # None
    /\ dt_until # None
    /\ \E r \in 1..Len(result) : result[r].published = None
    /\ \E r \in 1..Len(result) : result[r].published # None
    /\ \E i \in 1..Len(docs) : \E k \in 1..Len(docs[i].entries) :
          LET p == safe_get_published(docs[i].entries[k], env.tz)
          IN  p # None /\ (p[1] < dt_since[1] \/ p[1] > dt_until[1])

\* C5: the result of a search (CLI or Streamlit) never holds two items with the
\* same (title, link) pair.
C5_NoDuplicateTitleLink ==
    Done =>
        \A i, j \in 1..Len(result) :
            (result[i].title = result[j].title /\ result[i].link = result[j].link)
                => i = j

\* what identifies an item of the result among the items collected
Ident(item) ==
    <<item.title, item.link, item.summary, item.published, item.source,
      IF app = "st" THEN item.feed_url ELSE Empty>>

\* the first position of an item in the list collected before dedupe and sort
FirstPos(item) ==
    CHOOSE k \in 1..Len(collected) :
        /\ Ident(collected[k]) = Ident(item)
        /\ \A m \in 1..(k - 1) : Ident(collected[m]) # Ident(item)

\* p >= q on Optional instants, None below every instant
PublishedGe(p, q) == q = None \/ (p # None /\ p[1] >= q[1])

\* C6: in every result, adjacent items are in non-increasing order of published
\* with unknown below every known instant, and items with the same published are
\* in the order they were collected in.
C6_SortedAndStable ==
    Done =>
        /\ \A i \in 1..(Len(result) - 1) :
              PublishedGe(result[i].published, result[i + 1].published)
        /\ \A i, j \in 1..Len(result) :
              (i < j /\ result[i].published = result[j].published)
                  => FirstPos(result[i]) < FirstPos(result[j])

\* a result with two items of the same instant, an older one after them and an
\* undated one last, collected in another order than the sorted one
C6_Witness ==
    /\ Done
    /\ \E i, j, k, u \in 1..Len(result) :
          /\ i < j /\ j < k /\ k < u
          /\ result[i].published # None
          /\ result[i].published = result[j].published
          /\ result[k].published # None
          /\ result[k].published[1] < result[j].published[1]
          /\ result[u].published = None
          /\ FirstPos(result[u]) < FirstPos(result[i])

\* C7: the result never holds more than limit items, and a search in which no
\* item survives filtering ends normally with the empty result.
C7_AtMostLimit ==
    /\ Len(result) <= args.limit
    /\ (pc = "cli_fetch" /\ idx > Len(args.feed_urls) /\ all_entries = <<>>)
          => ENABLED CliFinish
    /\ (pc = "cli_done" /\ collected = <<>>) => result = <<>>
    /\ (pc = "st_done" /\ \A k \in 1..Len(all_entries) :
              ~StItemMatches(all_entries[k], args.parent, args.children, args.mode))
          => result = <<>>

\* a finished search that cut its result down to limit items
C7_Witness ==
    /\ pc = "cli_done"
    /\ Len(result) = args.limit
    /\ Len(all_entries) > args.limit

\* the text cmd_search matched a stored item's keywords against
CliBlob(item) ==
    Strip((IF item.title = NoTitle THEN Empty ELSE item.title) \o <<" ">> \o item.summary)

\* C8: an exact parent term matches an item only where it occurs as a whole word:
\* every item of a result got with an exact parent holds the parent's text
\* bounded by non-word characters or the ends of the text.
C8_ExactParentIsWordBounded ==
    /\ (pc = "cli_done" /\ parent_kwd # None /\ parent_kwd[1].exact
                        /\ parent_kwd[1].text # <<>>)
          => \A r \in 1..Len(result) :
                exact_word_match(CliBlob(result[r]), parent_kwd[1].text)
    /\ (pc = "st_done" /\ is_quoted(args.parent) /\ strip_quotes(args.parent) # <<>>)
          => \A r \in 1..Len(result) :
                exact_word_match(Haystack(result[r]), strip_quotes(args.parent))

\* C9: no term whose text is empty after trimming and removal of its exact marker
\* reaches the match evaluator, as parent or as child.
C9_NoEmptyTermReachesEvaluator ==
    /\ (app = "cli" /\ \E i \in 1..Len(docs) : ~docs[i].raises /\ docs[i].entries # <<>>) =>
          /\ parent_kwd # None => parent_kwd[1].text # <<>>
          /\ \A i \in 1..Len(child_kwds) : child_kwds[i].text # <<>>
    /\ (app = "st" /\ pc = "st_done" /\ all_entries # <<>>) =>
          /\ strip_quotes(args.parent) # <<>>
          /\ \A i \in 1..Len(args.children) :
                Strip(args.children[i]) # <<>> => strip_quotes(args.children[i]) # <<>>

\* the inclusion rule of C10 for one item of the Streamlit search
C10_Included(item) ==
    LET h    == Haystack(item)
        kids == {i \in 1..Len(args.children) : Strip(args.children[i]) # <<>>}
    IN  /\ match_term(h, args.parent)
        /\ \/ kids = {}
           \/ args.mode = "ALL" /\ \A i \in kids : match_term(h, args.children[i])
           \/ args.mode = "ANY" /\ \E i \in kids : match_term(h, args.children[i])

\* a row of the Streamlit result is this fetched item
SameItem(row, item) ==
    /\ row.title = item.title /\ row.link = item.link /\ row.summary = item.summary
    /\ row.published = item.published /\ row.source = item.source
    /\ row.feed_url = item.feed_url

\* C10: in the Streamlit search an item is in the result exactly when the parent
\* matches it and, with child terms given, every child matches it in mode ALL or
\* at least one does in mode ANY (up to the cut at limit items).
C10_ParentAndChildren ==
    pc = "st_done" =>
        /\ \A r \in 1..Len(result) : C10_Included(result[r])
        /\ \A k \in 1..Len(all_entries) :
              (C10_Included(all_entries[k]) /\ Len(result) < args.limit)
                  => \E r \in 1..Len(result) : SameItem(result[r], all_entries[k])

\* mode ALL with child terms: an item that the parent and one child match but not
\* every child is left out, while another item is in the result
C10_Witness ==
    /\ pc = "st_done"
    /\ args.mode = "ALL"
    /\ result # <<>>
    /\ Len(result) < args.limit
    /\ \E k \in 1..Len(all_entries) :
          /\ match_term(Haystack(all_entries[k]), args.parent)
          /\ \E i \in 1..Len(args.children) :
                Strip(args.children[i]) # <<>>
                /\ match_term(Haystack(all_entries[k]), args.children[i])
          /\ \A r \in 1..Len(result) : ~SameItem(result[r], all_entries[k])

\* the published instant the run's code gives a raw entry
CodePublished(entry) ==
    IF app = "cli" THEN safe_get_published(entry, env.tz)
    ELSE IF safe_parse_date(entry) = None THEN None
    ELSE Some(safe_parse_date(entry)[1].t)

\* the resolution order of C11: the structured fields published_parsed,
\* updated_parsed, created_parsed first, then the free-text fields published,
\* updated, created, then None
C11_Resolved(entry) ==
    LET structured == IF entry.published_parsed # None THEN entry.published_parsed
                      ELSE IF entry.updated_parsed # None THEN entry.updated_parsed
                      ELSE entry.created_parsed
        parses(val) == val # None /\ val[1].kind # "bad"
        text       == IF parses(entry.published) THEN entry.published
                      ELSE IF parses(entry.updated) THEN entry.updated
                      ELSE IF parses(entry.created) THEN entry.created
                      ELSE None
    IN  IF structured # None
        THEN Some(IF app = "cli" THEN structured[1] - env.tz ELSE structured[1])
        ELSE IF text # None THEN Some(text[1].t)
        ELSE None

\* C11: every raw entry a finished search read has the published instant of the first
\* structured field present among published_parsed, updated_parsed,
\* created_parsed, else of the first parsable free-text field among published,
\* updated, created, else None.
C11_ResolutionOrder ==
    Done => \A i \in 1..Len(docs) : \A k \in 1..Len(docs[i].entries) :
        ~docs[i].entries[k].bad
            => CodePublished(docs[i].entries[k]) = C11_Resolved(docs[i].entries[k])

\* a limit clamped into [1, 50]
C12_Clamp(limit) == IF limit < 1 THEN 1 ELSE IF limit > MaxLimit THEN MaxLimit ELSE limit

\* C12 as claimed: every integer --limit is clamped into [1, 50] and the search
\* runs with the clamped value instead of being rejected.
C12_LimitClamped ==
    app = "cli" =>
        /\ pc # "usage_error"
        /\ pc = "cli_done" => result = Take(all_entries, C12_Clamp(args.limit))

\* the values of --limit that are accepted: 1 and the multiples of 5 up to 50
C12_Accepted == {1} \cup {5 * k : k \in 1..10}

\* C12, amended: a --limit that is 1 or a multiple of 5 in 5..50 is accepted and the
\* search cuts its result to exactly that many items; every other value (below 1,
\* above 50, or in between) is rejected with a usage error before anything is
\* fetched, and is not clamped.
C12_LimitAcceptedOrRejected ==
    (app = "cli" /\ pc # "cli_args") =>
        /\ (pc = "usage_error") <=> (args.limit \notin C12_Accepted)
        /\ pc = "usage_error" => (fetched = <<>> /\ result = <<>>)
        /\ pc = "cli_done" =>
              /\ Len(result) = (IF Len(all_entries) < args.limit
                                THEN Len(all_entries) ELSE args.limit)
              /\ \A r \in 1..Len(result) : result[r] = all_entries[r]

\* a --limit above 50 was rejected
C12_Witness == pc = "usage_error" /\ args.limit > MaxLimit /\ fetched = <<>>

\* the --open step has parsed a selection
C13_Parsed == pc \in {"cli_opened", "cli_no_valid", "cli_index_error"}

\* the token, a single index N or a range A-B read in either order, names n
C13_Names(token, n) ==
    LET t == Strip(token)
    IN  \/ /\ \A i \in 1..Len(t) : t[i] # "-"
           /\ int(t) = Some(n)
        \/ \E k \in 1..Len(t) :
             /\ t[k] = "-"
             /\ \A j \in 1..(k - 1) : t[j] # "-"
             /\ LET a == int(SubSeq(t, 1, k - 1))
                    b == int(SubSeq(t, k + 1, Len(t)))
                IN  /\ a # None
                    /\ b # None
                    /\ \/ a[1] <= n /\ n <= b[1]
                       \/ b[1] <= n /\ n <= a[1]

\* C13: parse_selection never raises; its list is strictly ascending, every index
\* of it is in 1..max_index and named by a well-formed token of the selection, a
\* token that is malformed or names nothing in 1..max_index adds nothing, and so
\* every display_entries[i - 1] of the loop that opens links is a valid lookup.
C13_SelectionIsValid ==
    /\ pc # "cli_index_error"
    /\ C13_Parsed =>
         LET idxs   == opening.idxs
             tokens == Split(opening.selection, ",")
         IN  /\ \A k \in 1..(Len(idxs) - 1) : idxs[k] < idxs[k + 1]
             /\ \A k \in 1..Len(idxs) :
                  /\ idxs[k] \in 1..Len(result)
                  /\ \E i \in 1..Len(tokens) : C13_Names(tokens[i], idxs[k])
             /\ \A n \in 1..Len(result) :
                  (\E i \in 1..Len(tokens) : C13_Names(tokens[i], n))
                      => \E k \in 1..Len(idxs) : idxs[k] = n
             /\ opening.opened =
                  SelectSeq([k \in 1..Len(idxs) |-> result[idxs[k]].link],
                            LAMBDA link : link # <<>>)

\* a reversed range and a range running past the table selected all of it, next
\* to a selection whose entry has no link to open
C13_Witness ==
    /\ pc = "cli_opened"
    /\ Len(result) = MaxShown
    /\ opening.selection = <<"3", "-", "1", ",", "2", "-", "9">>
    /\ opening.idxs = [k \in 1..MaxShown |-> k]
    /\ Len(opening.opened) < Len(opening.idxs)

\* the items that survive the filters of the run, in the order collected
C14_Survivors ==
    IF app = "cli" THEN collected ELSE SelectSeq(collected, C10_Included)

\* the first limit items of the deduplicated, sorted sequence of the survivors
C14_Expected == Take(CliSort(dedupe_entries(C14_Survivors)), args.limit)

\* C14: truncation is the last step: the result of a finished search is exactly the
\* first limit items of the sorted sequence of all collected, filtered and
\* deduplicated items, so no survivor is left out while a strictly older or undated
\* item is included.
C14_TruncationLast ==
    Done =>
        /\ Len(result) = Len(C14_Expected)
        /\ \A r \in 1..Len(result) :
              /\ result[r].title = C14_Expected[r].title
              /\ result[r].link = C14_Expected[r].link
              /\ result[r].published = C14_Expected[r].published
        /\ \A k \in 1..Len(C14_Survivors) :
              (\A r \in 1..Len(result) :
                    ~(result[r].title = C14_Survivors[k].title
                      /\ result[r].link = C14_Survivors[k].link))
                  => \A r \in 1..Len(result) :
                        PublishedGe(result[r].published, C14_Survivors[k].published)

====
